---- MODULE Spec2Model ----
(***************************************************************************)
(* Model of webhook_receiver.py: three Flask handlers (/sms, /web_clip,   *)
(* /email_inbound) that validate a payload, call the AI capability three  *)
(* times, and store one row through save_note_to_database.                *)
(*                                                                         *)
(* Text is modelled as a sequence of one-character strings, so that       *)
(* strip(), split(','), the f-string formats and the array-literal        *)
(* encoding are computed character by character, as the code does.        *)
(* None is a value distinct from every text.                               *)
(***************************************************************************)
EXTENDS Integers, Sequences, FiniteSets, TLC

VARIABLES
    workload,   \* which requests arrive and what the environment can answer
    request,    \* request[r]: the payload of request r, None fields = absent
    pc,         \* pc[r]: position of request r in its handler
    note,       \* note[r]: the handler's local variables
    conn,       \* conn[r]: the connection save_note_to_database holds
    cur,        \* cur[r]: the local variable cur of save_note_to_database
    txn,        \* txn[r]: rows inserted on conn[r] and not yet committed
    pending,    \* pending[r]: what save_note_to_database does when finally ends
    result,     \* result[r]: how save_note_to_database ended for the handler
    response,   \* response[r]: the HTTP reply of request r
    calls,      \* calls[r]: the external calls request r has made, in order
    store,      \* the committed rows of table user_notes
    nextId,     \* the sequence behind user_notes.id
    fn          \* a helper function applied on its own: its argument and result

vars == <<workload, request, pc, note, conn, cur, txn, pending, result,
          response, calls, store, nextId, fn>>

----------------------------------------------------------------------------
(* Bounds *)

\* Number of requests in flight together in the concurrent workload.
NumRequests == 2

\* Longest AI keyword answer given to parse_keywords_response on its own.
MaxResponseLen == 4

\* Most keywords, and longest keyword, serialized on their own.
MaxKeywords == 2
MaxKeywordLen == 2

----------------------------------------------------------------------------
(* Text *)

None == <<"<None>">>

IsSpace(c) == c \in {" ", "\t", "\n", "\r"}

RECURSIVE LStrip(_)
LStrip(s) ==
    IF s = <<>> THEN <<>>
    ELSE IF IsSpace(Head(s)) THEN LStrip(Tail(s)) ELSE s

RECURSIVE RStrip(_)
RStrip(s) ==
    IF s = <<>> THEN <<>>
    ELSE IF IsSpace(s[Len(s)]) THEN RStrip(SubSeq(s, 1, Len(s) - 1)) ELSE s

\* str.strip()
Strip(s) == RStrip(LStrip(s))

\* str.split(','): n commas give n + 1 pieces, empty pieces included
RECURSIVE SplitFrom(_, _)
SplitFrom(s, piece) ==
    IF s = <<>> THEN <<piece>>
    ELSE IF Head(s) = "," THEN <<piece>> \o SplitFrom(Tail(s), <<>>)
    ELSE SplitFrom(Tail(s), Append(piece, Head(s)))

SplitComma(s) == SplitFrom(s, <<>>)

\* [k.strip() for k in pieces]
RECURSIVE StripAll(_)
StripAll(pieces) ==
    IF pieces = <<>> THEN <<>> ELSE <<Strip(Head(pieces))>> \o StripAll(Tail(pieces))

NonEmpty(s) == s # <<>>

\* Variant of parse_keywords_response: the `if k.strip()` filter is missing.
parse_keywords_response_NoFilter(response_text) ==
    StripAll(SplitComma(response_text))

\* keywords = [k.strip() for k in response_text.split(',') if k.strip()]
parse_keywords_response(response_text) ==
    SelectSeq(StripAll(SplitComma(response_text)), NonEmpty)

\* k.replace('"', '\"')
RECURSIVE EscapeQuotes(_)
EscapeQuotes(k) ==
    IF k = <<>> THEN <<>>
    ELSE IF Head(k) = "\"" THEN <<"\\", "\"">> \o EscapeQuotes(Tail(k))
    ELSE <<Head(k)>> \o EscapeQuotes(Tail(k))

QuoteElement(k) == <<"\"">> \o EscapeQuotes(k) \o <<"\"">>

\* [f'"{k.replace(...)}"' for k in keywords]
RECURSIVE QuoteAll(_)
QuoteAll(keywords) ==
    IF keywords = <<>> THEN <<>>
    ELSE <<QuoteElement(Head(keywords))>> \o QuoteAll(Tail(keywords))

\* ','.join(parts)
RECURSIVE JoinComma(_)
JoinComma(parts) ==
    IF parts = <<>> THEN <<>>
    ELSE IF Len(parts) = 1 THEN Head(parts)
    ELSE Head(parts) \o <<",">> \o JoinComma(Tail(parts))

\* keywords_pg_array = '{' + ','.join(['"..."' for k in keywords]) + '}'
PgArrayLiteral(keywords) ==
    <<"{">> \o JoinComma(QuoteAll(keywords)) \o <<"}">>

\* What the store answers to a text that is no array literal
Malformed == << <<"<Malformed>">> >>

\* The store's reading of a one-dimensional text[] literal: `{`, elements
\* separated by commas, `}`. Inside double quotes a backslash makes the next
\* character literal and an unescaped double quote ends the element; after it
\* only whitespace, a comma or `}` may come. An unquoted element runs to the
\* next comma or `}` and may hold no double quote and no brace.
RECURSIVE PgScan(_, _, _, _, _)
PgScan(s, i, mode, elem, acc) ==
    IF i > Len(s) THEN (IF mode = "end" THEN acc ELSE Malformed)
    ELSE LET c == s[i] IN
    CASE mode = "start" ->
           IF IsSpace(c) THEN PgScan(s, i + 1, "start", elem, acc)
           ELSE IF c = "{" THEN PgScan(s, i + 1, "first", <<>>, acc)
           ELSE Malformed
      [] mode \in {"first", "element"} ->
           IF IsSpace(c) THEN PgScan(s, i + 1, mode, elem, acc)
           ELSE IF c = "}"
           THEN (IF mode = "first" THEN PgScan(s, i + 1, "end", <<>>, acc)
                 ELSE Malformed)
           ELSE IF c = "\"" THEN PgScan(s, i + 1, "quoted", <<>>, acc)
           ELSE IF c \in {",", "{"} THEN Malformed
           ELSE IF c = "\\"
           THEN (IF i = Len(s) THEN Malformed
                 ELSE PgScan(s, i + 2, "unquoted", <<s[i + 1]>>, acc))
           ELSE PgScan(s, i + 1, "unquoted", <<c>>, acc)
      [] mode = "quoted" ->
           IF c = "\\"
           THEN (IF i = Len(s) THEN Malformed
                 ELSE PgScan(s, i + 2, "quoted", Append(elem, s[i + 1]), acc))
           ELSE IF c = "\"" THEN PgScan(s, i + 1, "after", <<>>, Append(acc, elem))
           ELSE PgScan(s, i + 1, "quoted", Append(elem, c), acc)
      [] mode = "unquoted" ->
           IF c = "," THEN PgScan(s, i + 1, "element", <<>>, Append(acc, RStrip(elem)))
           ELSE IF c = "}" THEN PgScan(s, i + 1, "end", <<>>, Append(acc, RStrip(elem)))
           ELSE IF c \in {"\"", "{"} THEN Malformed
           ELSE IF c = "\\"
           THEN (IF i = Len(s) THEN Malformed
                 ELSE PgScan(s, i + 2, "unquoted", Append(elem, s[i + 1]), acc))
           ELSE PgScan(s, i + 1, "unquoted", Append(elem, c), acc)
      [] mode = "after" ->
           IF IsSpace(c) THEN PgScan(s, i + 1, "after", elem, acc)
           ELSE IF c = "," THEN PgScan(s, i + 1, "element", <<>>, acc)
           ELSE IF c = "}" THEN PgScan(s, i + 1, "end", <<>>, acc)
           ELSE Malformed
      [] mode = "end" ->
           IF IsSpace(c) THEN PgScan(s, i + 1, "end", elem, acc) ELSE Malformed

PgArrayDecode(literal) == PgScan(literal, 1, "start", <<>>, <<>>)

\* Literals of the handlers
Unknown == <<"U","n","k","n","o","w","n">>
UnknownWebClipper ==
    <<"u","n","k","n","o","w","n","_","w","e","b","_","c","l","i","p","p","e","r">>
WebClipPrefix == <<"W","e","b"," ","C","l","i","p"," ","f","r","o","m"," ">>
WebClipSeparator == <<":","\n","\n">>
SubjectPrefix == <<"S","u","b","j","e","c","t",":"," ">>
SubjectSeparator == <<"\n","\n">>
ErrorPrefix == <<"E","r","r","o","r",":"," ">>

\* Python truth of an optional text: None and '' are false
Truthy(v) == v # None /\ v # <<>>

----------------------------------------------------------------------------
(* Workloads: what arrives and what the environment can answer *)

\* "single": one request, every payload shape, every AI and database outcome.
\* "concurrent": NumRequests requests in flight together, a small payload set.
Workloads == {"single", "concurrent"}

Requests == IF workload = "single" THEN {1} ELSE 1 .. NumRequests

Channels == {"sms", "web_clip", "email"}

Payload(channel, is_json, f1, f2, f3) ==
    [channel |-> channel, is_json |-> is_json,
     From        |-> IF channel = "sms" THEN f1 ELSE None,
     Body        |-> IF channel = "sms" THEN f2 ELSE None,
     url         |-> IF channel = "web_clip" THEN f1 ELSE None,
     text        |-> IF channel = "web_clip" THEN f2 ELSE None,
     username    |-> IF channel = "web_clip" THEN f3 ELSE None,
     sender      |-> IF channel = "email" THEN f1 ELSE None,
     subject     |-> IF channel = "email" THEN f2 ELSE None,
     body_plain  |-> IF channel = "email" THEN f3 ELSE None]

NoPayload == Payload("none", FALSE, None, None, None)

SmsPayloads ==
    IF workload = "single"
    THEN {Payload("sms", FALSE, f, b, None) :
            f \in {None, <<"u">>}, b \in {None, <<" ">>, <<"a">>}}
    ELSE {Payload("sms", FALSE, <<"u">>, <<"a">>, None)}

WebClipPayloads ==
    IF workload = "single"
    THEN {Payload("web_clip", FALSE, None, None, None)} \cup
         {Payload("web_clip", TRUE, u, t, n) :
            u \in {None, <<>>, <<"h">>},
            t \in {None, <<" ">>, <<"t">>},
            n \in {None, <<>>, <<"w">>}}
    ELSE {Payload("web_clip", TRUE, <<"h">>, <<"t">>, None)}

EmailPayloads ==
    IF workload = "single"
    THEN {Payload("email", FALSE, s, j, b) :
            s \in {None, <<"e">>},
            j \in {None, <<>>, <<"j">>},
            b \in {None, <<" ">>, <<"b">>}}
    ELSE {}

Payloads == SmsPayloads \cup WebClipPayloads \cup EmailPayloads

\* What openai.chat.completions.create can do for a prompt type: answer with
\* message content `text` (ok) or raise an exception whose str() is `text`.
AIOutcomes(kind) ==
    IF workload = "single"
    THEN CASE kind = "summary" ->
                {[ok |-> TRUE, text |-> <<" ", "s">>], [ok |-> FALSE, text |-> <<"q">>]}
           [] kind = "sentiment" ->
                {[ok |-> TRUE, text |-> <<"p">>], [ok |-> FALSE, text |-> <<"q">>]}
           [] kind = "keywords" ->
                {[ok |-> TRUE, text |-> <<"k", ",", " ", ",", "m">>],
                 [ok |-> TRUE, text |-> <<"\\">>],
                 [ok |-> TRUE, text |-> <<"\\", "a">>],
                 [ok |-> FALSE, text |-> <<"q">>],
                 [ok |-> FALSE, text |-> <<"x", ",", "y">>]}
    ELSE {[ok |-> TRUE, text |-> <<"k">>]}

\* Every psycopg2 call either returns or raises; the concurrent workload
\* lets only the insert and the commit raise.
DbOutcomes(op) ==
    IF workload = "single" \/ op \in {"execute", "commit"}
    THEN {"ok", "raise"}
    ELSE {"ok"}

----------------------------------------------------------------------------
(* State *)

NoResponse == [status |-> 0, body |-> ""]

\* No helper function is being applied on its own
NoFn == [op |-> "none", arg |-> <<>>, res |-> <<>>, done |-> FALSE]

NoNote == [content |-> None, username |-> None, summary |-> None,
           sentiment |-> None, raw_keywords |-> None, keywords |-> <<>>]

\* A row present before any request of the run arrives.
SeedRow == [rid |-> 0, id |-> 1, content |-> <<"o">>, summary |-> <<"o">>,
            sentiment |-> <<"o">>, keywords |-> <<"{", "}">>, username |-> <<"o">>]

Init ==
    /\ workload \in Workloads
    /\ request = [r \in Requests |-> NoPayload]
    /\ pc = [r \in Requests |-> "idle"]
    /\ note = [r \in Requests |-> NoNote]
    /\ conn = [r \in Requests |-> "none"]
    /\ cur = [r \in Requests |-> "unbound"]
    /\ txn = [r \in Requests |-> <<>>]
    /\ pending = [r \in Requests |-> "none"]
    /\ result = [r \in Requests |-> "none"]
    /\ response = [r \in Requests |-> NoResponse]
    /\ calls = [r \in Requests |-> <<>>]
    /\ store \in IF workload = "single" THEN {<<>>, <<SeedRow>>} ELSE {<<>>}
    /\ nextId = Len(store) + 1
    /\ fn = NoFn

\* A call record: the operation, for an AI call its prompt type and input
\* text, whether it returned (ok), and what the AI answered or raised (out).
Call(op, kind, text, ok, out) ==
    [op |-> op, kind |-> kind, text |-> text, ok |-> ok, out |-> out]

DbCall(op, outcome) == Call(op, "", <<>>, outcome = "ok", <<>>)

----------------------------------------------------------------------------
(* Handlers: entry to the first AI call *)

\* The transport hands request r to its handler.
Receive(r) ==
    /\ pc[r] = "idle"
    /\ \E p \in Payloads : request' = [request EXCEPT ![r] = p]
    /\ pc' = [pc EXCEPT ![r] = "received"]
    /\ UNCHANGED <<workload, note, conn, cur, txn, pending, result, response,
                   calls, store, nextId>>

\* The handler returns (status, body) before any external call.
Reject(r, status, body) ==
    /\ response' = [response EXCEPT ![r] = [status |-> status, body |-> body]]
    /\ pc' = [pc EXCEPT ![r] = "done"]
    /\ UNCHANGED note

\* An exception leaves the handler: Flask answers 500.
Unhandled(r) == Reject(r, 500, "Internal Server Error")

\* Validation passed: content and username are set, the AI calls follow.
Accept(r, content, username) ==
    /\ note' = [note EXCEPT ![r].content = content, ![r].username = username]
    /\ pc' = [pc EXCEPT ![r] = "analyse"]
    /\ UNCHANGED response

\* Variant of sms_webhook: request.form.get('From') without the 'Unknown'
\* default.
sms_webhook_NoDefault(r) ==
    /\ pc[r] = "received"
    /\ request[r].channel = "sms"
    /\ LET sender_number == request[r].From
           message_body == IF request[r].Body = None THEN <<>> ELSE request[r].Body
       IN  IF Strip(message_body) = <<>>
           THEN Reject(r, 400, "{\"status\":\"error\",\"message\":\"Empty SMS body\"}")
           ELSE Accept(r, message_body, sender_number)
    /\ UNCHANGED <<workload, request, conn, cur, txn, pending, result, calls,
                   store, nextId>>

sms_webhook(r) ==
    /\ pc[r] = "received"
    /\ request[r].channel = "sms"
    /\ LET sender_number == IF request[r].From = None THEN Unknown ELSE request[r].From
           message_body == IF request[r].Body = None THEN <<>> ELSE request[r].Body
       IN  IF Strip(message_body) = <<>>
           THEN Reject(r, 400, "{\"status\":\"error\",\"message\":\"Empty SMS body\"}")
           ELSE Accept(r, message_body, sender_number)
    /\ UNCHANGED <<workload, request, conn, cur, txn, pending, result, calls,
                   store, nextId>>

\* Variant of web_clip_webhook: the username default is not applied.
web_clip_webhook_NoDefault(r) ==
    /\ pc[r] = "received"
    /\ request[r].channel = "web_clip"
    /\ LET clipped_url == request[r].url
           clipped_text == request[r].text
           username_for_note == request[r].username
       IN  IF ~request[r].is_json
           THEN Reject(r, 400, "{\"error\":\"Request must be JSON\"}")
           ELSE IF ~Truthy(clipped_url)
           THEN Reject(r, 400, "{\"error\":\"Missing 'url' or 'text' in request body\"}")
           ELSE IF clipped_text = None
           THEN Unhandled(r)
           ELSE IF Strip(clipped_text) = <<>>
           THEN Reject(r, 400, "{\"error\":\"Missing 'url' or 'text' in request body\"}")
           ELSE Accept(r, WebClipPrefix \o clipped_url \o WebClipSeparator \o clipped_text,
                       username_for_note)
    /\ UNCHANGED <<workload, request, conn, cur, txn, pending, result, calls,
                   store, nextId>>

web_clip_webhook(r) ==
    /\ pc[r] = "received"
    /\ request[r].channel = "web_clip"
    /\ LET clipped_url == request[r].url
           clipped_text == request[r].text
           username_for_note ==
               IF Truthy(request[r].username) THEN request[r].username
               ELSE UnknownWebClipper
       IN  IF ~request[r].is_json
           THEN Reject(r, 400, "{\"error\":\"Request must be JSON\"}")
           ELSE IF ~Truthy(clipped_url)
           THEN Reject(r, 400, "{\"error\":\"Missing 'url' or 'text' in request body\"}")
           ELSE IF clipped_text = None
           THEN Unhandled(r)   \* None.strip(): AttributeError
           ELSE IF Strip(clipped_text) = <<>>
           THEN Reject(r, 400, "{\"error\":\"Missing 'url' or 'text' in request body\"}")
           ELSE Accept(r, WebClipPrefix \o clipped_url \o WebClipSeparator \o clipped_text,
                       username_for_note)
    /\ UNCHANGED <<workload, request, conn, cur, txn, pending, result, calls,
                   store, nextId>>

\* Variant of receive_email: the subject is left out of full_content.
receive_email_BodyOnly(r) ==
    /\ pc[r] = "received"
    /\ request[r].channel = "email"
    /\ LET sender == request[r].sender
           body_plain == request[r].body_plain
       IN  IF body_plain = None
           THEN Unhandled(r)
           ELSE IF Strip(body_plain) = <<>>
           THEN Reject(r, 400, "Missing email body")
           ELSE Accept(r, body_plain, sender)
    /\ UNCHANGED <<workload, request, conn, cur, txn, pending, result, calls,
                   store, nextId>>

receive_email(r) ==
    /\ pc[r] = "received"
    /\ request[r].channel = "email"
    /\ LET sender == request[r].sender
           subject == request[r].subject
           body_plain == request[r].body_plain
       IN  IF body_plain = None
           THEN Unhandled(r)   \* None.strip(): AttributeError
           ELSE IF Strip(body_plain) = <<>>
           THEN Reject(r, 400, "Missing email body")
           ELSE Accept(r,
                       IF Truthy(subject)
                       THEN SubjectPrefix \o subject \o SubjectSeparator \o body_plain
                       ELSE body_plain,
                       sender)
    /\ UNCHANGED <<workload, request, conn, cur, txn, pending, result, calls,
                   store, nextId>>

----------------------------------------------------------------------------
(* Enrichment *)

\* Variant of get_ai_analysis: the except clause returns str(e) without the
\* "Error: " prefix.
get_ai_analysis_NoPrefix(outcome) ==
    IF outcome.ok THEN Strip(outcome.text) ELSE outcome.text

\* get_ai_analysis: the stripped message content, or "Error: " + str(e)
get_ai_analysis(outcome) ==
    IF outcome.ok THEN Strip(outcome.text) ELSE ErrorPrefix \o outcome.text

\* Variant of AnalysisOrder: sentiment is asked for before the summary.
AnalysisOrder_Swapped == <<"sentiment", "summary", "keywords">>

\* The prompt types in the order every handler asks for them
AnalysisOrder == <<"summary", "sentiment", "keywords">>

AiCalls(r) == SelectSeq(calls[r], LAMBDA c : c.op = "ai")

\* One AI call of the handler of r: the i-th call's value goes to the i-th of
\* summary, sentiment, raw_keywords; after the third, the keywords are parsed
\* and save_note_to_database is entered.
Analyse(r) ==
    /\ pc[r] = "analyse"
    /\ LET i == Len(AiCalls(r)) + 1
           kind == AnalysisOrder[i]
       IN  \E outcome \in AIOutcomes(kind) :
             LET value == get_ai_analysis(outcome) IN
             /\ calls' = [calls EXCEPT
                    ![r] = Append(@, Call("ai", kind, note[r].content, outcome.ok,
                                          outcome.text))]
             /\ note' = [note EXCEPT ![r] =
                    CASE i = 1 -> [@ EXCEPT !.summary = value]
                      [] i = 2 -> [@ EXCEPT !.sentiment = value]
                      [] i = 3 -> [@ EXCEPT !.raw_keywords = value,
                                            !.keywords = parse_keywords_response(value)]]
             /\ pc' = [pc EXCEPT ![r] = IF i = 3 THEN "connect" ELSE "analyse"]
    /\ UNCHANGED <<workload, request, conn, cur, txn, pending, result, response,
                   store, nextId>>

----------------------------------------------------------------------------
(* save_note_to_database *)

\* save_note_to_database leaves with `how`: "true", "false" or "raised"
Leave(r, how) ==
    /\ result' = [result EXCEPT ![r] = how]
    /\ pc' = [pc EXCEPT ![r] = "reply"]

\* Variant of get_supabase_connection: the `if conn is None` return is
\* missing, the function goes on to the try block without a connection.
get_supabase_connection_NoNoneCheck(r) ==
    /\ pc[r] = "connect"
    /\ \E outcome \in DbOutcomes("connect") :
         /\ calls' = [calls EXCEPT ![r] = Append(@, DbCall("connect", outcome))]
         /\ conn' = [conn EXCEPT ![r] = IF outcome = "ok" THEN "open" ELSE "none"]
         /\ pc' = [pc EXCEPT ![r] = "cursor"]
    /\ UNCHANGED <<workload, request, note, cur, txn, pending, result, response,
                   store, nextId>>

\* conn = get_supabase_connection(); if conn is None: return False
get_supabase_connection(r) ==
    /\ pc[r] = "connect"
    /\ \E outcome \in DbOutcomes("connect") :
         /\ calls' = [calls EXCEPT ![r] = Append(@, DbCall("connect", outcome))]
         /\ IF outcome = "ok"
            THEN /\ conn' = [conn EXCEPT ![r] = "open"]
                 /\ pc' = [pc EXCEPT ![r] = "cursor"]
                 /\ UNCHANGED result
            ELSE /\ Leave(r, "false")
                 /\ UNCHANGED conn
    /\ UNCHANGED <<workload, request, note, cur, txn, pending, response, store,
                   nextId>>

\* cur = conn.cursor()
conn_cursor(r) ==
    /\ pc[r] = "cursor"
    /\ \E outcome \in DbOutcomes("cursor") :
         /\ calls' = [calls EXCEPT ![r] = Append(@, DbCall("cursor", outcome))]
         /\ IF outcome = "ok"
            THEN /\ cur' = [cur EXCEPT ![r] = "open"]
                 /\ pc' = [pc EXCEPT ![r] = "execute"]
            ELSE /\ pc' = [pc EXCEPT ![r] = "except"]
                 /\ UNCHANGED cur
    /\ UNCHANGED <<workload, request, note, conn, txn, pending, result, response,
                   store, nextId>>

\* The row the INSERT of request r writes: the five parameters and the
\* generated id (the store's CURRENT_TIMESTAMP column is not modelled); rid
\* tells which request wrote the row.
NewRow(r) ==
    [rid |-> r, id |-> nextId, content |-> note[r].content,
     summary |-> note[r].summary, sentiment |-> note[r].sentiment,
     keywords |-> PgArrayLiteral(note[r].keywords), username |-> note[r].username]

\* cur.execute(insert_query, (...)): the row is written inside the transaction.
\* The store refuses an INSERT whose keywords parameter is no array literal.
cur_execute(r) ==
    /\ pc[r] = "execute"
    /\ \E outcome \in IF PgArrayDecode(NewRow(r).keywords) = Malformed
                       THEN {"raise"} ELSE DbOutcomes("execute") :
         /\ calls' = [calls EXCEPT ![r] = Append(@, DbCall("execute", outcome))]
         /\ IF outcome = "ok"
            THEN /\ txn' = [txn EXCEPT ![r] = Append(@, NewRow(r))]
                 /\ nextId' = nextId + 1
                 /\ pc' = [pc EXCEPT ![r] = "fetchone"]
            ELSE /\ pc' = [pc EXCEPT ![r] = "except"]
                 /\ UNCHANGED <<txn, nextId>>
    /\ UNCHANGED <<workload, request, note, conn, cur, pending, result, response,
                   store>>

\* inserted_id = cur.fetchone()[0]
cur_fetchone(r) ==
    /\ pc[r] = "fetchone"
    /\ \E outcome \in DbOutcomes("fetchone") :
         /\ calls' = [calls EXCEPT ![r] = Append(@, DbCall("fetchone", outcome))]
         /\ pc' = [pc EXCEPT ![r] = IF outcome = "ok" THEN "commit" ELSE "except"]
    /\ UNCHANGED <<workload, request, note, conn, cur, txn, pending, result,
                   response, store, nextId>>

\* Variant of conn_commit: `return True` is taken whether or not the commit
\* went through.
conn_commit_ReturnRegardless(r) ==
    /\ pc[r] = "commit"
    /\ \E outcome \in DbOutcomes("commit") :
         /\ calls' = [calls EXCEPT ![r] = Append(@, DbCall("commit", outcome))]
         /\ IF outcome = "ok"
            THEN /\ store' = store \o txn[r]
                 /\ txn' = [txn EXCEPT ![r] = <<>>]
            ELSE UNCHANGED <<store, txn>>
         /\ pending' = [pending EXCEPT ![r] = "return_true"]
         /\ pc' = [pc EXCEPT ![r] = "cur_close"]
    /\ UNCHANGED <<workload, request, note, conn, cur, result, response, nextId>>

\* Variant of conn_commit: the commit replaces the table by the rows of the
\* transaction.
conn_commit_Overwrite(r) ==
    /\ pc[r] = "commit"
    /\ \E outcome \in DbOutcomes("commit") :
         /\ calls' = [calls EXCEPT ![r] = Append(@, DbCall("commit", outcome))]
         /\ IF outcome = "ok"
            THEN /\ store' = txn[r]
                 /\ txn' = [txn EXCEPT ![r] = <<>>]
                 /\ pending' = [pending EXCEPT ![r] = "return_true"]
                 /\ pc' = [pc EXCEPT ![r] = "cur_close"]
            ELSE /\ pc' = [pc EXCEPT ![r] = "except"]
                 /\ UNCHANGED <<store, txn, pending>>
    /\ UNCHANGED <<workload, request, note, conn, cur, result, response, nextId>>

\* conn.commit(); return True  (the return waits for the finally block)
conn_commit(r) ==
    /\ pc[r] = "commit"
    /\ \E outcome \in DbOutcomes("commit") :
         /\ calls' = [calls EXCEPT ![r] = Append(@, DbCall("commit", outcome))]
         /\ IF outcome = "ok"
            THEN /\ store' = store \o txn[r]
                 /\ txn' = [txn EXCEPT ![r] = <<>>]
                 /\ pending' = [pending EXCEPT ![r] = "return_true"]
                 /\ pc' = [pc EXCEPT ![r] = "cur_close"]
            ELSE /\ pc' = [pc EXCEPT ![r] = "except"]
                 /\ UNCHANGED <<store, txn, pending>>
    /\ UNCHANGED <<workload, request, note, conn, cur, result, response, nextId>>

\* Variant of except_rollback: after the rollback the insert is tried again.
except_rollback_Retry(r) ==
    /\ pc[r] = "except"
    /\ \E outcome \in DbOutcomes("rollback") :
         /\ calls' = [calls EXCEPT ![r] = Append(@, DbCall("rollback", outcome))]
         /\ IF outcome = "ok"
            THEN /\ txn' = [txn EXCEPT ![r] = <<>>]
                 /\ pending' = [pending EXCEPT ![r] = "return_false"]
                 /\ pc' = [pc EXCEPT ![r] = IF cur[r] = "open" THEN "execute"
                                            ELSE "cur_close"]
            ELSE /\ pending' = [pending EXCEPT ![r] = "raise"]
                 /\ pc' = [pc EXCEPT ![r] = "cur_close"]
                 /\ UNCHANGED txn
    /\ UNCHANGED <<workload, request, note, conn, cur, result, response, store,
                   nextId>>

\* Variant of except_rollback: the requests share one connection, so the
\* rollback discards the uncommitted rows of every request.
except_rollback_Shared(r) ==
    /\ pc[r] = "except"
    /\ \E outcome \in DbOutcomes("rollback") :
         /\ calls' = [calls EXCEPT ![r] = Append(@, DbCall("rollback", outcome))]
         /\ IF outcome = "ok"
            THEN /\ txn' = [q \in Requests |-> <<>>]
                 /\ pending' = [pending EXCEPT ![r] = "return_false"]
            ELSE /\ pending' = [pending EXCEPT ![r] = "raise"]
                 /\ UNCHANGED txn
    /\ pc' = [pc EXCEPT ![r] = "cur_close"]
    /\ UNCHANGED <<workload, request, note, conn, cur, result, response, store,
                   nextId>>

\* except psycopg2.Error / except Exception: conn.rollback(); return False.
\* Both clauses do the same; a rollback that raises leaves the handler clause
\* with that exception. The finally block runs next either way.
except_rollback(r) ==
    /\ pc[r] = "except"
    /\ \E outcome \in DbOutcomes("rollback") :
         /\ calls' = [calls EXCEPT ![r] = Append(@, DbCall("rollback", outcome))]
         /\ IF outcome = "ok"
            THEN /\ txn' = [txn EXCEPT ![r] = <<>>]
                 /\ pending' = [pending EXCEPT ![r] = "return_false"]
            ELSE /\ pending' = [pending EXCEPT ![r] = "raise"]
                 /\ UNCHANGED txn
    /\ pc' = [pc EXCEPT ![r] = "cur_close"]
    /\ UNCHANGED <<workload, request, note, conn, cur, result, response, store,
                   nextId>>

\* finally: if conn: cur.close()
\* conn is a connection object here, hence true; cur is unbound when
\* conn.cursor() raised, and reading it raises UnboundLocalError.
finally_cur_close(r) ==
    /\ pc[r] = "cur_close"
    /\ IF cur[r] = "unbound"
       THEN /\ Leave(r, "raised")
            /\ UNCHANGED <<cur, calls>>
       ELSE \E outcome \in DbOutcomes("cur_close") :
              /\ calls' = [calls EXCEPT ![r] = Append(@, DbCall("cur_close", outcome))]
              /\ IF outcome = "ok"
                 THEN /\ cur' = [cur EXCEPT ![r] = "closed"]
                      /\ pc' = [pc EXCEPT ![r] = "conn_close"]
                      /\ UNCHANGED result
                 ELSE /\ Leave(r, "raised")
                      /\ UNCHANGED cur
    /\ UNCHANGED <<workload, request, note, conn, txn, pending, response, store,
                   nextId>>

\* finally: conn.close(); then the pending return or exception takes effect.
\* Closing ends the transaction: rows not committed are gone.
finally_conn_close(r) ==
    /\ pc[r] = "conn_close"
    /\ \E outcome \in DbOutcomes("conn_close") :
         /\ calls' = [calls EXCEPT ![r] = Append(@, DbCall("conn_close", outcome))]
         /\ IF outcome = "ok"
            THEN /\ conn' = [conn EXCEPT ![r] = "closed"]
                 /\ txn' = [txn EXCEPT ![r] = <<>>]
                 /\ Leave(r, CASE pending[r] = "return_true" -> "true"
                               [] pending[r] = "return_false" -> "false"
                               [] OTHER -> "raised")
            ELSE /\ Leave(r, "raised")
                 /\ UNCHANGED <<conn, txn>>
    /\ UNCHANGED <<workload, request, note, cur, pending, response, store, nextId>>

----------------------------------------------------------------------------
(* Handlers: the reply after save_note_to_database *)

\* The reply bodies; for /sms the TwiML document around the message text
\* (the trailing emoji of the success message is left out).
SavedBody(channel) ==
    CASE channel = "sms" ->
           "<Response><Message>Your SMS note has been processed and saved to Micro-Atlas!</Message></Response>"
      [] channel = "web_clip" -> "{\"message\":\"Web clip received and saved!\"}"
      [] channel = "email" -> "Email received and saved!"

FailedBody(channel) ==
    CASE channel = "sms" ->
           "<Response><Message>Failed to process your SMS note. Please try again.</Message></Response>"
      [] channel = "web_clip" -> "{\"error\":\"Failed to save web clip\"}"
      [] channel = "email" -> "Error saving email"

\* if save_note_to_database(...): return ..., 200  else: return ..., 500
\* An exception out of save_note_to_database is not caught by the handler.
Reply(r) ==
    /\ pc[r] = "reply"
    /\ response' = [response EXCEPT ![r] =
           CASE result[r] = "true" ->
                  [status |-> 200, body |-> SavedBody(request[r].channel)]
             [] result[r] = "false" ->
                  [status |-> 500, body |-> FailedBody(request[r].channel)]
             [] OTHER -> [status |-> 500, body |-> "Internal Server Error"]]
    /\ pc' = [pc EXCEPT ![r] = "done"]
    /\ UNCHANGED <<workload, request, note, conn, cur, txn, pending, result,
                   calls, store, nextId>>

----------------------------------------------------------------------------

Next ==
    \/ \E r \in Requests : Receive(r) /\ UNCHANGED fn
    \/ \E r \in Requests : sms_webhook(r) /\ UNCHANGED fn
    \/ \E r \in Requests : web_clip_webhook(r) /\ UNCHANGED fn
    \/ \E r \in Requests : receive_email(r) /\ UNCHANGED fn
    \/ \E r \in Requests : Analyse(r) /\ UNCHANGED fn
    \/ \E r \in Requests : get_supabase_connection(r) /\ UNCHANGED fn
    \/ \E r \in Requests : conn_cursor(r) /\ UNCHANGED fn
    \/ \E r \in Requests : cur_execute(r) /\ UNCHANGED fn
    \/ \E r \in Requests : cur_fetchone(r) /\ UNCHANGED fn
    \/ \E r \in Requests : conn_commit(r) /\ UNCHANGED fn
    \/ \E r \in Requests : except_rollback(r) /\ UNCHANGED fn
    \/ \E r \in Requests : finally_cur_close(r) /\ UNCHANGED fn
    \/ \E r \in Requests : finally_conn_close(r) /\ UNCHANGED fn
    \/ \E r \in Requests : Reply(r) /\ UNCHANGED fn

Spec == Init /\ [][Next]_vars

----------------------------------------------------------------------------
(* Vocabulary of the claims *)

Finished(r) == pc[r] = "done"

\* save_note_to_database has been left (returned or raised)
SaveLeft(r) == result[r] # "none"

\* The committed rows request r wrote
RowsOf(r) == SelectSeq(store, LAMBDA row : row.rid = r)

CallsOf(r, op) == SelectSeq(calls[r], LAMBDA c : c.op = op)

Raised(r, op) == \E i \in 1 .. Len(calls[r]) : calls[r][i].op = op /\ ~calls[r][i].ok

Returned(r, op) == \E i \in 1 .. Len(calls[r]) : calls[r][i].op = op /\ calls[r][i].ok

MissingFieldsReply ==
    [status |-> 400, body |-> "{\"error\":\"Missing 'url' or 'text' in request body\"}"]

MissingBodyReply == [status |-> 400, body |-> "Missing email body"]

----------------------------------------------------------------------------
(* C1 *)

\* C1: a /web_clip request with a JSON body in which url is absent or text is
\* absent ends with the 400 "Missing 'url' or 'text'" reply and has made no AI
\* call and no database call.
C1_MissingUrlOrTextRejected ==
    \A r \in Requests :
        ( /\ Finished(r)
          /\ request[r].channel = "web_clip"
          /\ request[r].is_json
          /\ (request[r].url = None \/ request[r].text = None) )
        => (response[r] = MissingFieldsReply /\ calls[r] = <<>>)

(* C2 *)

\* C2: an /email_inbound request whose body-plain is absent or whitespace-only
\* ends with the 400 "Missing email body" reply and has made no AI call and no
\* database call.
C2_MissingEmailBodyRejected ==
    \A r \in Requests :
        ( /\ Finished(r)
          /\ request[r].channel = "email"
          /\ (request[r].body_plain = None \/ Strip(request[r].body_plain) = <<>>) )
        => (response[r] = MissingBodyReply /\ calls[r] = <<>>)

(* C3 *)

\* C3: once save_note_to_database has been left, on any path, the connection
\* it acquired is closed; no finished request still holds an open connection.
C3_ConnectionReleased ==
    \A r \in Requests : SaveLeft(r) => conn[r] # "open"

(* C4 *)

\* C4: when cursor creation, the insert, the read of the generated id or the
\* commit fails, save_note_to_database rolls back, returns false instead of
\* raising, and the store holds no row of that note.
C4_FailureRollsBackAndReturnsFalse ==
    \A r \in Requests :
        ( /\ SaveLeft(r)
          /\ \E op \in {"cursor", "execute", "fetchone", "commit"} : Raised(r, op) )
        => ( /\ result[r] = "false"
             /\ Returned(r, "rollback")
             /\ RowsOf(r) = <<>> )

(* C5 *)

\* C5: when the connection cannot be acquired, save_note_to_database returns
\* false without raising, no cursor, insert, commit or rollback is attempted,
\* nothing of the request is in the store or in a transaction, and the handler
\* answers its channel's 500 reply.
C5_NoConnectionReturnsFalse ==
    \A r \in Requests :
        Raised(r, "connect") =>
            /\ result[r] = "false"
            /\ conn[r] = "none"
            /\ \A op \in {"cursor", "execute", "fetchone", "commit", "rollback"} :
                   CallsOf(r, op) = <<>>
            /\ RowsOf(r) = <<>>
            /\ txn[r] = <<>>
            /\ workload = "single" => store \in {<<>>, <<SeedRow>>}
            /\ Finished(r) =>
                   response[r] = [status |-> 500,
                                  body |-> CASE request[r].channel = "sms" ->
                                                  "<Response><Message>Failed to process your SMS note. Please try again.</Message></Response>"
                                             [] request[r].channel = "web_clip" ->
                                                  "{\"error\":\"Failed to save web clip\"}"
                                             [] request[r].channel = "email" ->
                                                  "Error saving email"]

C5_Witness ==
    \E r \in Requests :
        /\ Raised(r, "connect")
        /\ Finished(r)
        /\ response[r].status = 500
        /\ store = <<SeedRow>>

(* C6 *)

\* C6: save_note_to_database returns true (or has its `return True` pending
\* in the finally block) only when its commit has returned and exactly one
\* row of the note, from exactly one insert, is committed.
C6_TrueOnlyAfterCommit ==
    \A r \in Requests :
        (result[r] = "true" \/ pending[r] = "return_true") =>
            /\ Returned(r, "commit")
            /\ Len(CallsOf(r, "execute")) = 1
            /\ Len(RowsOf(r)) = 1
            /\ RowsOf(r)[1].content = note[r].content

C6_Witness ==
    \E r \in Requests : result[r] = "true" /\ Len(RowsOf(r)) = 1

(* C7 *)

\* The handler has passed validation
Validated(r) == note[r].content # None

\* What an AI call record leaves in its field: the trimmed answer, or
\* "Error: " followed by the cause
FieldOf(c) == IF c.ok THEN Strip(c.out) ELSE ErrorPrefix \o c.out

\* Whatever the AI calls did, the request goes on to persistence and the reply
\* follows the persistence outcome alone.
ProceedsToPersistence(r) ==
    /\ SaveLeft(r) => Len(CallsOf(r, "connect")) = 1
    /\ Finished(r) =>
          /\ response[r].status = 200 <=> result[r] = "true"
          /\ response[r].status = 500 <=> result[r] # "true"

\* C7 as stated: after the three AI calls of a validated request, every field
\* whose call failed holds the string "Error: " + cause (for keywords: that one
\* string), every field whose call succeeded holds the AI result, the request
\* goes on to persistence and the reply depends on the persistence outcome
\* alone.
C7_FailedFieldHoldsErrorString ==
    \A r \in Requests :
        (Validated(r) /\ Len(AiCalls(r)) = 3) =>
            LET ai == AiCalls(r) IN
            /\ note[r].summary = FieldOf(ai[1])
            /\ note[r].sentiment = FieldOf(ai[2])
            /\ note[r].keywords = IF ai[3].ok
                                  THEN parse_keywords_response(FieldOf(ai[3]))
                                  ELSE <<FieldOf(ai[3])>>
            /\ ProceedsToPersistence(r)

\* C7 amended: as above, except that the keywords field always holds the
\* parsed list of the value the keywords call left, so that a failed keywords
\* call leaves "Error: " + cause split at its commas and trimmed; the committed
\* row carries the same summary and sentiment.
C7_FailedCallsDegradeFields ==
    \A r \in Requests :
        (Validated(r) /\ Len(AiCalls(r)) = 3) =>
            LET ai == AiCalls(r) IN
            /\ note[r].summary = FieldOf(ai[1])
            /\ note[r].sentiment = FieldOf(ai[2])
            /\ note[r].keywords = parse_keywords_response(FieldOf(ai[3]))
            /\ \A i \in 1 .. Len(RowsOf(r)) :
                   /\ RowsOf(r)[i].summary = FieldOf(ai[1])
                   /\ RowsOf(r)[i].sentiment = FieldOf(ai[2])
            /\ ProceedsToPersistence(r)

C7_Witness ==
    \E r \in Requests :
        /\ Finished(r)
        /\ response[r].status = 200
        /\ Len(RowsOf(r)) = 1
        /\ AiCalls(r)[1].ok /\ ~AiCalls(r)[2].ok /\ ~AiCalls(r)[3].ok
        /\ AiCalls(r)[3].out = <<"x", ",", "y">>

(* C8 *)

\* The channel adapter's validation fails for payload p
ValidationFails(p) ==
    CASE p.channel = "sms" -> p.Body = None \/ Strip(p.Body) = <<>>
      [] p.channel = "web_clip" ->
            \/ ~p.is_json
            \/ ~Truthy(p.url)
            \/ p.text = None
            \/ Strip(p.text) = <<>>
      [] p.channel = "email" -> p.body_plain = None \/ Strip(p.body_plain) = <<>>

\* C8: every request ends Acknowledged (200), Rejected(400) or Rejected(500);
\* it ends 400 exactly when validation fails, 500 only at the persistence step
\* after the three AI calls, and 200 only after save_note_to_database returned
\* true.
C8_RequestStateMachine ==
    \A r \in Requests :
        Finished(r) =>
            /\ response[r].status \in {200, 400, 500}
            /\ response[r].status = 400 <=> ValidationFails(request[r])
            /\ response[r].status = 500 =>
                   (Len(AiCalls(r)) = 3 /\ CallsOf(r, "connect") # <<>> /\ result[r] # "true")
            /\ response[r].status = 200 => result[r] = "true"

(* C9 *)

\* C9: a validated request calls the AI exactly three times, for summary,
\* sentiment and keywords in this order, each time with its content; every AI
\* call precedes the one entry into save_note_to_database, and the reply comes
\* only after save_note_to_database has been left.
C9_ThreeCallsThenOneSave ==
    \A r \in Requests :
        LET ai == AiCalls(r) IN
        /\ Len(ai) <= 3
        /\ \A i \in 1 .. Len(ai) :
               /\ ai[i].kind = <<"summary", "sentiment", "keywords">>[i]
               /\ ai[i].text = note[r].content
               /\ calls[r][i].op = "ai"
        /\ Len(CallsOf(r, "connect")) <= 1
        /\ CallsOf(r, "connect") # <<>> => Len(ai) = 3
        /\ (Validated(r) /\ Finished(r)) =>
               /\ Len(ai) = 3
               /\ Len(CallsOf(r, "connect")) = 1
               /\ SaveLeft(r)

C9_Witness ==
    \E r \in Requests :
        /\ Finished(r)
        /\ response[r].status = 200
        /\ Len(AiCalls(r)) = 3

(* C10 *)

\* C10: no request acquires a connection more than once or executes its
\* insert more than once, whatever the AI calls and the insert did.
C10_NoRetry ==
    \A r \in Requests :
        /\ Len(CallsOf(r, "connect")) <= 1
        /\ Len(CallsOf(r, "execute")) <= 1

C10_Witness ==
    \E r \in Requests :
        /\ Finished(r)
        /\ Raised(r, "execute")
        /\ \E i \in 1 .. 3 : ~AiCalls(r)[i].ok
        /\ Len(CallsOf(r, "execute")) = 1

(* C11 *)

\* An /sms request whose Body is neither empty nor whitespace-only
SmsWithBody(r) ==
    /\ request[r].channel = "sms"
    /\ request[r].Body # None
    /\ Strip(request[r].Body) # <<>>

SmsSender(r) == IF request[r].From = None THEN <<"U","n","k","n","o","w","n">>
                ELSE request[r].From

\* C11 as stated: every /sms request with a non-blank Body ends with the 200
\* success reply and one persisted note whose username is the From value
\* ("Unknown" when From is absent) and whose content is Body verbatim.
C11_SmsAlwaysSucceeds ==
    \A r \in Requests :
        (SmsWithBody(r) /\ Finished(r)) =>
            /\ response[r].status = 200
            /\ Len(RowsOf(r)) = 1
            /\ RowsOf(r)[1].username = SmsSender(r)
            /\ RowsOf(r)[1].content = request[r].Body

\* C11 amended: every /sms request with a non-blank Body passes validation
\* (never 400); it ends with the 200 success reply exactly when
\* save_note_to_database returns true, and then exactly one note is persisted;
\* every note persisted for it has the From value ("Unknown" when absent) as
\* username and Body verbatim as content.
C11_SmsPersistsFromAndBody ==
    \A r \in Requests :
        SmsWithBody(r) =>
            /\ pc[r] # "received" =>
                   (Validated(r) /\ note[r].content = request[r].Body
                                 /\ response[r].status # 400)
            /\ \A i \in 1 .. Len(RowsOf(r)) :
                   /\ RowsOf(r)[i].username = SmsSender(r)
                   /\ RowsOf(r)[i].content = request[r].Body
            /\ Finished(r) =>
                   /\ response[r].status = 200 <=> result[r] = "true"
                   /\ result[r] = "true" => Len(RowsOf(r)) = 1

C11_Witness ==
    \E r \in Requests :
        /\ SmsWithBody(r)
        /\ request[r].From = None
        /\ Finished(r)
        /\ response[r].status = 200
        /\ Len(RowsOf(r)) = 1
        /\ RowsOf(r)[1].username = <<"U","n","k","n","o","w","n">>

----------------------------------------------------------------------------
(* Helper functions applied on their own *)

\* All texts over `alphabet` of length at most n
TextsUpTo(alphabet, n) == UNION {[1 .. k -> alphabet] : k \in 0 .. n}

\* The pipeline at rest, no request in it
PipelineIdle ==
    /\ workload = "single"
    /\ request = [r \in Requests |-> NoPayload]
    /\ pc = [r \in Requests |-> "idle"]
    /\ note = [r \in Requests |-> NoNote]
    /\ conn = [r \in Requests |-> "none"]
    /\ cur = [r \in Requests |-> "unbound"]
    /\ txn = [r \in Requests |-> <<>>]
    /\ pending = [r \in Requests |-> "none"]
    /\ result = [r \in Requests |-> "none"]
    /\ response = [r \in Requests |-> NoResponse]
    /\ calls = [r \in Requests |-> <<>>]
    /\ store = <<>>
    /\ nextId = 1

pipelineVars == <<workload, request, pc, note, conn, cur, txn, pending, result,
                  response, calls, store, nextId>>

Apply(op, arg) == [op |-> op, arg |-> arg, res |-> <<>>, done |-> FALSE]

(* Keyword serialization and the store's reading of it *)

KeywordChars == {"a", "\"", ",", " ", "\\"}

\* The example of the specification: ["a\"b", "c"]
ExampleKeywords == << <<"a", "\"", "b">>, <<"c">> >>

KeywordLists ==
    TextsUpTo(TextsUpTo(KeywordChars, MaxKeywordLen), MaxKeywords)
        \cup {ExampleKeywords}

InitSerialize ==
    /\ PipelineIdle
    /\ fn \in {Apply("serialize", keywords) : keywords \in KeywordLists}

\* keywords_pg_array is built from the keywords handed to save_note_to_database
Serialize ==
    /\ fn.op = "serialize"
    /\ ~fn.done
    /\ fn' = [fn EXCEPT !.res = PgArrayLiteral(fn.arg), !.done = TRUE]
    /\ UNCHANGED pipelineVars

NextSerialize == Serialize

SpecSerialize == InitSerialize /\ [][NextSerialize]_vars

(* C12 *)

\* C12: for every keyword sequence over an alphabet with double quote, comma,
\* space and backslash, the array literal save_note_to_database builds is read
\* back by the store as the original sequence, same elements in the same
\* order; ["a\"b", "c"] serializes to {"a\"b","c"}.
C12_SerializationRoundTrips ==
    (fn.op = "serialize" /\ fn.done) =>
        /\ PgArrayDecode(fn.res) = fn.arg
        /\ fn.arg = ExampleKeywords =>
               fn.res = <<"{", "\"", "a", "\\", "\"", "b", "\"", ",", "\"", "c", "\"", "}">>

\* The same statement for keywords without a backslash
C12_RoundTripsWithoutBackslash ==
    (/\ fn.op = "serialize"
     /\ fn.done
     /\ \A i \in 1 .. Len(fn.arg) : \A j \in 1 .. Len(fn.arg[i]) : fn.arg[i][j] # "\\") =>
        /\ PgArrayDecode(fn.res) = fn.arg
        /\ fn.arg = ExampleKeywords =>
               fn.res = <<"{", "\"", "a", "\\", "\"", "b", "\"", ",", "\"", "c", "\"", "}">>

----------------------------------------------------------------------------
(* Keyword parsing on its own *)

ResponseChars == {"a", "A", ",", " "}

\* The example of the specification: "ml, data ,  ,ai"
ExampleResponse ==
    <<"m","l",","," ","d","a","t","a"," ",","," "," ",",","a","i">>

ResponseTexts == TextsUpTo(ResponseChars, MaxResponseLen) \cup {ExampleResponse}

InitParse ==
    /\ PipelineIdle
    /\ fn \in {Apply("parse", text) : text \in ResponseTexts}

\* keywords = parse_keywords_response(raw_keywords_response)
Parse ==
    /\ fn.op = "parse"
    /\ ~fn.done
    /\ fn' = [fn EXCEPT !.res = parse_keywords_response(fn.arg), !.done = TRUE]
    /\ UNCHANGED pipelineVars

NextParse == Parse

SpecParse == InitParse /\ [][NextParse]_vars

(* C13 *)

\* Position of the k-th comma of s
NthComma(s, k) ==
    CHOOSE i \in 1 .. Len(s) :
        s[i] = "," /\ Cardinality({j \in 1 .. i : s[j] = ","}) = k

NumCommas(s) == Cardinality({i \in 1 .. Len(s) : s[i] = ","})

\* The k-th comma-separated piece of s, k in 1 .. NumCommas(s) + 1
Piece(s, k) ==
    SubSeq(s,
           IF k = 1 THEN 1 ELSE NthComma(s, k - 1) + 1,
           IF k = NumCommas(s) + 1 THEN Len(s) ELSE NthComma(s, k) - 1)

\* t without its surrounding whitespace
Trimmed(t) ==
    LET inked == {i \in 1 .. Len(t) : t[i] \notin {" ", "\t", "\n", "\r"}} IN
    IF inked = {} THEN <<>>
    ELSE SubSeq(t, CHOOSE i \in inked : \A j \in inked : i <= j,
                   CHOOSE i \in inked : \A j \in inked : i >= j)

\* The pieces of s that are not blank
KeptPieces(s) == {k \in 1 .. NumCommas(s) + 1 : Trimmed(Piece(s, k)) # <<>>}

\* C13: parse_keywords_response returns exactly the comma-separated pieces of
\* its input, trimmed, blank pieces dropped, in their order, duplicates and
\* letter case kept; no element is empty, starts or ends with whitespace or
\* holds a comma; "ml, data ,  ,ai" gives ["ml", "data", "ai"].
C13_ParseKeywords ==
    (fn.op = "parse" /\ fn.done) =>
        LET s == fn.arg
            kw == fn.res
        IN  /\ Len(kw) = Cardinality(KeptPieces(s))
            /\ \A k \in KeptPieces(s) :
                   kw[Cardinality({j \in KeptPieces(s) : j <= k})] = Trimmed(Piece(s, k))
            /\ \A i \in 1 .. Len(kw) :
                   /\ kw[i] # <<>>
                   /\ kw[i][1] # " " /\ kw[i][Len(kw[i])] # " "
                   /\ \A j \in 1 .. Len(kw[i]) : kw[i][j] # ","
            /\ s = ExampleResponse =>
                   kw = << <<"m","l">>, <<"d","a","t","a">>, <<"a","i">> >>
            /\ s = <<"a", ",", "a">> => kw = << <<"a">>, <<"a">> >>
            /\ s = <<"A", ",", " ", "a">> => kw = << <<"A">>, <<"a">> >>

C13_Witness ==
    /\ fn.op = "parse"
    /\ fn.done
    /\ fn.arg = ExampleResponse
    /\ Len(fn.res) = 3

----------------------------------------------------------------------------
(* C14 *)

\* The handler of r has accepted the payload (it is past validation)
Accepted(r) == pc[r] \notin {"idle", "received"} /\ Validated(r)

\* content reached enrichment and persistence as `expected`
ContentIs(r, expected) ==
    /\ note[r].content = expected
    /\ \A i \in 1 .. Len(AiCalls(r)) : AiCalls(r)[i].text = expected
    /\ \A i \in 1 .. Len(RowsOf(r)) : RowsOf(r)[i].content = expected

SubjectLine(subject, body) ==
    <<"S","u","b","j","e","c","t",":"," ">> \o subject \o <<"\n", "\n">> \o body

WebClipText(url, text) ==
    <<"W","e","b"," ","C","l","i","p"," ","f","r","o","m"," ">> \o url
        \o <<":", "\n", "\n">> \o text

\* C14 as stated: for a valid /email_inbound request the content is
\* "Subject: {subject}\n\n{bodyPlain}" when subject is present and bodyPlain
\* alone when it is absent, and the persisted username is sender verbatim; for
\* a valid /web_clip request the content is "Web Clip from {url}:\n\n{text}".
C14_ContentBySubjectPresence ==
    \A r \in Requests :
        Accepted(r) =>
            /\ request[r].channel = "email" =>
                   /\ ContentIs(r, IF request[r].subject # None
                                   THEN SubjectLine(request[r].subject, request[r].body_plain)
                                   ELSE request[r].body_plain)
                   /\ \A i \in 1 .. Len(RowsOf(r)) :
                          RowsOf(r)[i].username = request[r].sender
            /\ request[r].channel = "web_clip" =>
                   ContentIs(r, WebClipText(request[r].url, request[r].text))

\* C14 amended: the same, with "Subject: {subject}\n\n{bodyPlain}" when
\* subject is present and not empty, and bodyPlain alone when subject is
\* absent or the empty string.
C14_ContentFormats ==
    \A r \in Requests :
        Accepted(r) =>
            /\ request[r].channel = "email" =>
                   /\ ContentIs(r, IF request[r].subject \notin {None, <<>>}
                                   THEN SubjectLine(request[r].subject, request[r].body_plain)
                                   ELSE request[r].body_plain)
                   /\ \A i \in 1 .. Len(RowsOf(r)) :
                          RowsOf(r)[i].username = request[r].sender
            /\ request[r].channel = "web_clip" =>
                   ContentIs(r, WebClipText(request[r].url, request[r].text))

C14_Witness ==
    \E r \in Requests :
        /\ request[r].channel = "email"
        /\ request[r].subject = <<"j">>
        /\ Finished(r)
        /\ Len(RowsOf(r)) = 1
        /\ RowsOf(r)[1].content =
               <<"S","u","b","j","e","c","t",":"," ","j","\n","\n","b">>
        /\ RowsOf(r)[1].username = <<"e">>

----------------------------------------------------------------------------
(* C15 *)

Sentinel ==
    <<"u","n","k","n","o","w","n","_","w","e","b","_","c","l","i","p","p","e","r">>

\* Every note persisted for r, and the username handed to persistence, is u
UsernameIs(r, u) ==
    /\ note[r].username = u
    /\ \A i \in 1 .. Len(RowsOf(r)) : RowsOf(r)[i].username = u

\* C15 as stated: a valid /web_clip request that omits username persists
\* "unknown_web_clipper"; one that supplies a username persists it unchanged.
C15_UsernameByPresence ==
    \A r \in Requests :
        (Accepted(r) /\ request[r].channel = "web_clip") =>
            UsernameIs(r, IF request[r].username = None THEN Sentinel
                          ELSE request[r].username)

\* C15 amended: a valid /web_clip request that omits username, or supplies the
\* empty string, persists "unknown_web_clipper"; one that supplies a non-empty
\* username persists it unchanged.
C15_UsernameDefault ==
    \A r \in Requests :
        (Accepted(r) /\ request[r].channel = "web_clip") =>
            UsernameIs(r, IF request[r].username \in {None, <<>>} THEN Sentinel
                          ELSE request[r].username)

C15_Witness ==
    \E r \in Requests :
        /\ request[r].channel = "web_clip"
        /\ request[r].username = None
        /\ Finished(r)
        /\ response[r].status = 200
        /\ Len(RowsOf(r)) = 1
        /\ RowsOf(r)[1].username = Sentinel

----------------------------------------------------------------------------
(* C16 *)

\* Every persisted note has content and a readable keywords array without an
\* empty element; no request has more than one row.
StoreRowsWellFormed ==
    /\ \A i \in 1 .. Len(store) :
           /\ store[i].content \notin {None, <<>>}
           /\ PgArrayDecode(store[i].keywords) # Malformed
           /\ \A k \in 1 .. Len(PgArrayDecode(store[i].keywords)) :
                  PgArrayDecode(store[i].keywords)[k] # <<>>
    /\ \A r \in Requests : Len(RowsOf(r)) <= 1

\* A step leaves every persisted row as it is and adds at most one row
StoreOnlyGrows ==
    \/ store' = store
    \/ /\ Len(store') = Len(store) + 1
       /\ SubSeq(store', 1, Len(store)) = store

\* C16: over any sequence of requests, every persisted note has non-empty
\* content and keywords without an empty element, and a persisted note is never
\* changed or removed: the store only grows, by at most one row per request.
C16_StoreInvariant == [](StoreRowsWellFormed) /\ [][StoreOnlyGrows]_vars

C16_Witness ==
    /\ Len(store) = 2
    /\ store[1] = SeedRow
    /\ PgArrayDecode(store[2].keywords) = << <<"k">>, <<"m">> >>

----------------------------------------------------------------------------
(* C17 *)

\* Everything request q holds outside the store
LocalState(q) ==
    <<request[q], pc[q], note[q], conn[q], cur[q], txn[q], pending[q],
      result[q], response[q], calls[q]>>

RowsIn(table, q) == SelectSeq(table, LAMBDA row : row.rid = q)

\* A step belongs to one request: every other request keeps its local state,
\* its connection and transaction included, and its committed rows.
StepIsolated ==
    \E r \in Requests :
        \A q \in Requests \ {r} :
            /\ LocalState(q)' = LocalState(q)
            /\ RowsIn(store', q) = RowsIn(store, q)

\* What request r persisted and answered follows from its own payload and the
\* outcomes of its own external calls (the id the store generates aside).
SameAsAlone(r) ==
    /\ Len(RowsOf(r)) = (IF Returned(r, "commit") THEN 1 ELSE 0)
    /\ \A i \in 1 .. Len(RowsOf(r)) :
           /\ RowsOf(r)[i].content = note[r].content
           /\ RowsOf(r)[i].summary = note[r].summary
           /\ RowsOf(r)[i].sentiment = note[r].sentiment
           /\ RowsOf(r)[i].username = note[r].username
           /\ RowsOf(r)[i].keywords =
                  <<"{">> \o JoinComma(QuoteAll(note[r].keywords)) \o <<"}">>
    /\ ~Accepted(r) => (calls[r] = <<>> /\ conn[r] = "none")
    /\ (Finished(r) /\ Accepted(r)) =>
           (response[r].status = 200 <=>
                (Returned(r, "commit") /\ Returned(r, "cur_close")
                                       /\ Returned(r, "conn_close")))
    /\ \A op \in {"cursor", "execute", "fetchone", "commit", "rollback",
                  "cur_close", "conn_close"} :
           CallsOf(r, op) # <<>> => Returned(r, "connect")

\* C17: under any interleaving each request works on its own connection, the
\* store is the only state requests share, the reply and the persisted row of
\* a request are what its own payload and its own external outcomes give, and
\* a rollback or failure in one request leaves the rows of the others alone.
C17_RequestsIsolated ==
    [](\A r \in Requests : SameAsAlone(r)) /\ [][StepIsolated]_vars

C17_Witness ==
    /\ workload = "concurrent"
    /\ \E r \in Requests : \E q \in Requests \ {r} :
           /\ Finished(r) /\ Finished(q)
           /\ Returned(q, "rollback")
           /\ response[q].status = 500
           /\ response[r].status = 200
           /\ Len(RowsOf(r)) = 1
           /\ RowsOf(q) = <<>>

----------------------------------------------------------------------------
(* C18 *)

\* C18: for every finished request the 200 reply is given exactly when one
\* row of the request is committed, and with a 400 or 500 reply (an unhandled
\* error included) the store holds no row of the request, also when closing
\* the cursor or the connection fails after the commit.
C18_ResponseAgreesWithStore ==
    \A r \in Requests :
        Finished(r) =>
            /\ response[r].status = 200 <=> Len(RowsOf(r)) = 1
            /\ response[r].status \in {400, 500} => RowsOf(r) = <<>>

----------------------------------------------------------------------------
(* C19 *)

\* Every external call returns or raises, and the server goes on running the
\* handlers: some step is taken as long as one is possible.
FairSpec == Init /\ [][Next]_vars /\ WF_vars(Next)

\* Every received request reaches a terminal response
C19_Terminates ==
    \A r \in 1 .. NumRequests :
        (r \in Requests /\ pc[r] = "received")
            ~> (r \in Requests /\ Finished(r) /\ response[r].status \in {200, 400, 500})

\* C19: when every external call returns or raises, every accepted request
\* ends with a terminal response (200, 400 or 500) and its connection closed.
C19_EndsWithConnectionClosed ==
    \A r \in Requests :
        Finished(r) =>
            /\ response[r].status \in {200, 400, 500}
            /\ conn[r] # "open"

====
